---------------------------- MODULE Spec2Model ----------------------------
(***************************************************************************)
(* Log-analysis backend of the Nginx AI Security Suite.                    *)
(*                                                                         *)
(*   backend/app/analysis.py  scan_log_and_summarize, analyze_log_data     *)
(*   backend/main.py          lifespan, start_log_analysis,                *)
(*                            run_analysis_in_background,                  *)
(*                            start_interactive_scrape,                    *)
(*                            cancel_interactive_scrape,                   *)
(*                            get_scraper_job_results                      *)
(*   backend/worker.py        the scraper worker loop, run_crawl            *)
(*                                                                         *)
(* Text is a sequence of character codes (10 is the line feed), so that    *)
(* substring search, line splitting and the alphabetical order of threat   *)
(* names are computed and not assumed.  A regular expression is modelled   *)
(* by a literal: pattern.search(line) is substring containment.            *)
(***************************************************************************)
EXTENDS Integers, Sequences, FiniteSets, TLC

VARIABLES
    COMPILED_REGEX_PATTERNS, \* analysis.py:25  log type -> sequence of rules
    log_content,             \* scan_log_and_summarize: argument (str)
    log_type,                \* scan_log_and_summarize: argument
    detailed_findings,       \* scan_log_and_summarize: first result
    summary_string,          \* scan_log_and_summarize: second result
    scan_pc,                 \* "off" | "ready" | "done" | "raised"
    rag_chain,               \* main.py:234  app.state.rag_chain: "unset" | "chain" | "None"
    startup_error,           \* main.py:235  app.state.startup_error: "None" or the message
    jobs,                    \* main.py:268  job id -> record
    analysis_cache,          \* main.py:270  (content hash, tag) -> analysis result
    vector_store,            \* analysis.py:28  the FAISS object the global names
    heap,                    \* FAISS objects in memory: object id -> set of documents
    disk,                    \* analysis.py:22  the index saved under FAISS_INDEX_PATH
    task,                    \* job id -> position and locals of its background task
    llm_calls,               \* jobs whose task has called rag_chain.invoke
    last_response,           \* the answer of the last HTTP request
    JOBS_DIR,                \* worker.py:16  file_queue/jobs: job id -> descriptor
    RESULTS_DIR,             \* worker.py:17  file_queue/results: job id -> result record
    ARCHIVE_DIR,             \* worker.py:18  file_queue/archive: the archived files
    submits,                 \* job id -> position of its start_interactive_scrape call
    cancel,                  \* the cancel_interactive_scrape call in progress
    cancel_responses,        \* job id -> status code of the last cancel answered for it
    worker,                  \* position and locals of the worker loop
    started,                 \* ids of the crawls started (process.start), in order
    stream,                  \* main.py:331  a stream_results request and its events
    rule_files,              \* analysis.py:20  log type -> lines of its rule file
    spider                   \* scraper.py:55  an InteractiveSpider and its parse calls

scanVars == <<log_content, log_type, detailed_findings, summary_string, scan_pc>>

sysVars == <<rag_chain, startup_error, jobs, analysis_cache, vector_store, heap, disk, task,
             llm_calls, last_response>>

scraperVars == <<JOBS_DIR, RESULTS_DIR, ARCHIVE_DIR, submits, cancel, cancel_responses,
                 worker, started>>

otherVars == <<stream, rule_files, spider>>

vars == <<COMPILED_REGEX_PATTERNS, scanVars, sysVars, scraperVars, otherVars>>

---------------------------------------------------------------------------
(* Bounds of the model.                                                    *)

\* longest log text the scanner is applied to in SpecScan
MaxLen == 5

\* number of log-analysis submissions in one run of Spec
MaxJobs == 2

\* number of log-analysis submissions in one run of SpecInsert
MaxInserts == 3

\* update events of one status stream in SpecStream
MaxEvents == 2

\* pages of the site crawled in SpecSpider
MaxUrls == 5

\* scraper.py:62, 67: the page limit given to the spider in SpecSpider
max_pages == 2

\* longest rule file the loader is run on in SpecLoad
MaxFileLines == 3

\* number of scraper jobs submitted in one run of SpecScraper
MaxScrapes == 2

---------------------------------------------------------------------------
(* Text.                                                                   *)

\* line feed, "'", "/", "<"
Chars == {10, 39, 47, 60}

RECURSIVE TextsOfLen(_)
TextsOfLen(n) ==
    IF n = 0 THEN {<<>>}
    ELSE {Append(t, c) : t \in TextsOfLen(n - 1), c \in Chars}

Texts == UNION {TextsOfLen(n) : n \in 0..MaxLen}

\* "SQLi", "XSS", "LFI" as code points
NameSQLi == <<83, 81, 76, 105>>
NameXSS == <<88, 83, 83>>
NameLFI == <<76, 70, 73>>

\* Python's str comparison: code point by code point, a proper prefix first.
RECURSIVE StrLess(_, _)
StrLess(a, b) ==
    IF b = <<>> THEN FALSE
    ELSE IF a = <<>> THEN TRUE
    ELSE IF Head(a) # Head(b) THEN Head(a) < Head(b)
    ELSE StrLess(Tail(a), Tail(b))

\* str.splitlines() for text whose only line boundary is the line feed:
\* no trailing empty line, "" has no lines.
RECURSIVE splitlines(_)
splitlines(s) ==
    IF s = <<>> THEN <<>>
    ELSE LET nl == {i \in 1..Len(s) : s[i] = 10}
         IN  IF nl = {} THEN <<s>>
             ELSE LET k == CHOOSE i \in nl : \A j \in nl : i <= j
                  IN  <<SubSeq(s, 1, k - 1)>> \o splitlines(SubSeq(s, k + 1, Len(s)))

\* regex["pattern"].search(line) for a literal pattern
search(pattern, line) ==
    \E i \in 1..(Len(line) - Len(pattern) + 1) :
        SubSeq(line, i, i + Len(pattern) - 1) = pattern

---------------------------------------------------------------------------
(* The rule registry after load_and_compile_regex().                       *)

Rule(id, name, pattern) == [id |-> id, name |-> name, pattern |-> pattern]

\* Registries the scanner is checked against: registry order differs from
\* the alphabetical order of the names, a name occurs in two rules, a
\* pattern is a substring of another.
RegistryA ==
    [nginx  |-> << Rule(<<49>>, NameXSS, <<60>>),
                   Rule(<<50>>, NameSQLi, <<39>>),
                   Rule(<<51>>, NameLFI, <<47, 47>>),
                   Rule(<<52>>, NameSQLi, <<47, 39>>) >>,
     apache |-> << Rule(<<49>>, NameSQLi, <<39>>),
                   Rule(<<50>>, NameXSS, <<60>>) >>]

RegistryB ==
    [nginx  |-> << Rule(<<49>>, NameLFI, <<47>>),
                   Rule(<<50>>, NameXSS, <<47, 60>>),
                   Rule(<<51>>, NameSQLi, <<39>>) >>,
     apache |-> << >>]

Registries == {RegistryA, RegistryB}

\* format tags a request may carry; "iis" is not a key of the registry
LogTypes == {"nginx", "apache", "iis"}

---------------------------------------------------------------------------
(* scan_log_and_summarize                                                  *)

\* a mutant of patterns_to_use: COMPILED_REGEX_PATTERNS[log_type], which
\* raises KeyError for a tag that is not a key
patterns_to_use_Subscript(registry, tag) ==
    IF tag \in DOMAIN registry
    THEN [raised |-> FALSE, rules |-> registry[tag]]
    ELSE [raised |-> TRUE, rules |-> <<>>]

\* COMPILED_REGEX_PATTERNS.get(log_type, [])
patterns_to_use(registry, tag) ==
    IF tag \in DOMAIN registry
    THEN [raised |-> FALSE, rules |-> registry[tag]]
    ELSE [raised |-> FALSE, rules |-> <<>>]

\* a mutant of FirstMatch: the loop has no break and the last match is kept
FirstMatch_NoBreak(rules, line) ==
    LET hits == {k \in 1..Len(rules) : search(rules[k].pattern, line)}
    IN  IF hits = {} THEN 0 ELSE CHOOSE k \in hits : \A h \in hits : h <= k

\* the inner for loop with its break: index of the first rule that matches
\* the line, 0 when the loop ends without a match
FirstMatch(rules, line) ==
    LET hits == {k \in 1..Len(rules) : search(rules[k].pattern, line)}
    IN  IF hits = {} THEN 0 ELSE CHOOSE k \in hits : \A h \in hits : k <= h

\* the outer for loop over enumerate(log_content.splitlines()), from line i on
RECURSIVE ScanLines(_, _, _)
ScanLines(rules, lines, i) ==
    IF i > Len(lines) THEN <<>>
    ELSE LET k == FirstMatch(rules, lines[i])
         IN  (IF k = 0 THEN <<>>
              ELSE << [Line |-> i, Threat |-> rules[k].name, LogEntry |-> lines[i]] >>)
             \o ScanLines(rules, lines, i + 1)

\* Counter(threat_names).items(): (name, count) pairs in order of first occurrence
RECURSIVE CounterItems(_)
CounterItems(names) ==
    IF names = <<>> THEN <<>>
    ELSE LET rest == CounterItems(SubSeq(names, 1, Len(names) - 1))
             last == names[Len(names)]
             at   == {p \in 1..Len(rest) : rest[p][1] = last}
         IN  IF at = {} THEN Append(rest, <<last, 1>>)
             ELSE [p \in 1..Len(rest) |->
                      IF p \in at THEN <<rest[p][1], rest[p][2] + 1>> ELSE rest[p]]

\* a mutant of sorted_items: the items are left in Counter order
sorted_items_Unsorted(items) == items

\* sorted(summary_counts.items()): ascending by name (the names are distinct)
RECURSIVE sorted_items(_)
sorted_items(items) ==
    IF items = <<>> THEN <<>>
    ELSE LET m == CHOOSE p \in 1..Len(items) :
                      \A q \in 1..Len(items) : q = p \/ StrLess(items[p][1], items[q][1])
         IN  <<items[m]>> \o
             sorted_items([p \in 1..(Len(items) - 1) |->
                              IF p < m THEN items[p] ELSE items[p + 1]])

\* One rendered line "- Found '<threat>' pattern <count> times." is the pair
\* of its two holes; "\n".join(lines) is the sequence of the lines, and the
\* empty string is the empty sequence.
SummaryOf(findings) ==
    sorted_items(CounterItems([p \in 1..Len(findings) |-> findings[p].Threat]))

\* raised: an exception leaves the function (there is no handler in it)
scan_log_and_summarize(registry, content, tag) ==
    LET use   == patterns_to_use(registry, tag)
        found == ScanLines(use.rules, splitlines(content), 1)
    IN  IF use.raised
        THEN [raised |-> TRUE, detailed_findings |-> <<>>, summary_string |-> <<>>]
        ELSE [raised |-> FALSE, detailed_findings |-> found,
              summary_string |-> SummaryOf(found)]

---------------------------------------------------------------------------
(* Texts, documents and results of the analysis pipeline.                  *)

\* the job ids, in the order in which they are handed out
Jobs == 1..(IF MaxJobs > MaxInserts THEN MaxJobs ELSE MaxInserts)

\* FAISS objects: 0 is the one made at startup, j the one job j loads
ObjIds == {0} \cup Jobs

\* f with f[k] = v (a dict assignment)
Put(f, k, v) == [x \in DOMAIN f \cup {k} |-> IF x = k THEN v ELSE f[x]]

EmptyDict == [x \in {} |-> x]

NoText == [kind |-> "none"]

\* "Initial document for the knowledge base."
InitialText == [kind |-> "initial"]

\* f"LogType: {log_type}\n{summary_for_cache}"
cache_query(tag, summary) ==
    [kind |-> "cache_query", log_type |-> tag, context |-> summary]

\* The text rag_chain.invoke returns for the prompt made of the header, the
\* summary and the tag.  The header carries the time of the call and the
\* model samples at temperature 0.8: the text of one call is not that of
\* another, which the field by records.
ReportText(j, tag, summary) ==
    [kind |-> "report", log_type |-> tag, context |-> summary, by |-> j]

\* Document(page_content=..., metadata={"source_query": ...})
Document(page_content, source_query) ==
    [page_content |-> page_content, source_query |-> source_query]

\* FAISS.from_texts(initial_text, embeddings_model): no metadata
InitialDoc == Document(InitialText, NoText)

NoneResult == [kind |-> "None"]

NotReady ==
    [summary |-> [kind |-> "analysis_failed_not_ready"], detailed_findings |-> <<>>]

NoThreats ==
    [summary |-> [kind |-> "no_threats_detected"], detailed_findings |-> <<>>]

CacheHit(doc, findings) ==
    [summary |-> doc.page_content, detailed_findings |-> findings,
     source |-> "Retrieved from Semantic Cache"]

Generated(ai_summary, findings) ==
    [summary |-> ai_summary, detailed_findings |-> findings,
     source |-> "Newly Generated by AI"]

\* {"summary": f"## AI Analysis Error\n\n**Error:** {e}", "details": {...}}
ErrorReport(e, findings) ==
    [summary |-> [kind |-> "ai_analysis_error", error |-> e],
     details |-> [regex_findings |-> findings]]

\* Uploaded files (bytes) with their format tag.  The first two files hold
\* the same lines in another order, the third another attack and a byte
\* (255) that is not UTF-8; the last submission is the first file under a
\* tag that is not a key of the registry, preceded by a file whose one line
\* matches no rule.
Submissions ==
    { << <<39, 10, 60>>, "nginx" >>,
      << <<60, 10, 39>>, "nginx" >>,
      << <<39, 255>>, "nginx" >>,
      << <<47>>, "nginx" >>,
      << <<39, 10, 60>>, "iis" >> }

\* log_content_bytes.decode("utf-8", errors="ignore") on bytes that are
\* ASCII or 255: the byte 255 is never part of a UTF-8 sequence and is dropped
decode(bytes) == SelectSeq(bytes, LAMBDA b : b < 128)

\* hashlib.sha256(bytes).hexdigest(): the digest of the bytes, without collisions
sha256(bytes) == [sha256 |-> bytes]

\* f"{content_hash}_{log_type}"
cache_key(content_hash, tag) == <<content_hash, tag>>

---------------------------------------------------------------------------
(* Rule files.  A file is the sequence of its lines (without the line      *)
(* feed), a line a sequence of character codes: 91 and 93 are the square   *)
(* brackets, 48..57 the digits, 58 the colon, 32 the space, 40 the opening *)
(* parenthesis.                                                            *)

\* a file that cannot be opened (no line of a text holds the character 0)
Missing == << <<0>> >>

Digits == 48..57

Spaces == {32}

IsDigit(c) == c \in Digits

IsSpace(c) == c \in Spaces

\* the number of characters at the start of s that are in class
LeadingRun(s, class) ==
    CHOOSE k \in 0..Len(s) :
        /\ \A i \in 1..k : s[i] \in class
        /\ k = Len(s) \/ s[k + 1] \notin class

\* the number of characters at the end of s that are in class
TrailingRun(s, class) ==
    CHOOSE k \in 0..Len(s) :
        /\ \A i \in (Len(s) - k + 1)..Len(s) : s[i] \in class
        /\ k = Len(s) \/ s[Len(s) - k] \notin class

\* str.strip()
strip(s) ==
    LET a == LeadingRun(s, Spaces)
    IN  IF a = Len(s) THEN <<>>
        ELSE SubSeq(s, a + 1, Len(s) - TrailingRun(s, Spaces))

\* re.match(r'\[(\d+)\]\s*([^:]+):\s*(.*)', line): after "[", the digits
\* and "]", the name runs up to the first colon and has at least one
\* character (\s* gives back a space when nothing else is there); the
\* pattern is the rest of the line after the spaces that follow the colon
re_match(line) ==
    LET n      == IF line # <<>> /\ Head(line) = 91
                  THEN LeadingRun(Tail(line), Digits) ELSE 0
        R      == SubSeq(line, n + 3, Len(line))
        colons == {i \in 1..Len(R) : R[i] = 58}
        c      == IF colons = {} THEN 0
                  ELSE CHOOSE i \in colons : \A k \in colons : i <= k
        ws     == LET lead == LeadingRun(R, Spaces)
                  IN  IF lead >= c - 1 THEN c - 2 ELSE lead
        rest   == SubSeq(R, c + 1, Len(R))
    IN  IF n >= 1 /\ Len(line) >= n + 2 /\ line[n + 2] = 93 /\ c >= 2
        THEN [match |-> TRUE,
              rule_id |-> SubSeq(line, 2, n + 1),
              name |-> SubSeq(R, ws + 1, c - 1),
              pattern |-> SubSeq(rest, LeadingRun(rest, Spaces) + 1, Len(rest))]
        ELSE [match |-> FALSE]

\* re.compile(pattern) succeeds; of the characters of the model's patterns
\* only the opening parenthesis is not a literal, and without its closing
\* parenthesis it raises re.error
re_compile_ok(pattern) == \A i \in 1..Len(pattern) : pattern[i] # 40

\* a mutant of LoadLines: the loop ends at the first line that is skipped
RECURSIVE LoadLines_Abort(_, _)
LoadLines_Abort(rules, lines) ==
    IF lines = <<>> THEN rules
    ELSE LET m == re_match(Head(lines))
         IN  IF m.match /\ re_compile_ok(strip(m.pattern))
             THEN LoadLines_Abort(Append(rules, [id |-> strip(m.rule_id),
                                                 name |-> strip(m.name),
                                                 pattern |-> strip(m.pattern)]),
                                  Tail(lines))
             ELSE rules

\* for line in f: a line that matches and whose pattern compiles adds a rule
\* to the list, any other line is passed over
RECURSIVE LoadLines(_, _)
LoadLines(rules, lines) ==
    IF lines = <<>> THEN rules
    ELSE LET m == re_match(Head(lines))
         IN  IF m.match /\ re_compile_ok(strip(m.pattern))
             THEN LoadLines(Append(rules, [id |-> strip(m.rule_id),
                                           name |-> strip(m.name),
                                           pattern |-> strip(m.pattern)]),
                            Tail(lines))
             ELSE LoadLines(rules, Tail(lines))

\* "[<id>] <name>: <pattern>"
RuleLine(id, name, pattern) == <<91>> \o id \o <<93, 32>> \o name \o <<58, 32>> \o pattern

\* owasp_regex_patterns.txt and apache_regex_patterns.txt
RuleFiles ==
    [nginx  |-> << RuleLine(<<49>>, NameXSS, <<60>>),
                   RuleLine(<<50>>, NameSQLi, <<39>>),
                   RuleLine(<<51>>, NameLFI, <<47, 47>>),
                   RuleLine(<<52>>, NameSQLi, <<47, 39>>) >>,
     apache |-> << RuleLine(<<49>>, NameSQLi, <<39>>),
                   RuleLine(<<50>>, NameXSS, <<60>>) >>]

\* str(uuid.uuid4()): an id no earlier job has
uuid4(table) == Cardinality(DOMAIN table) + 1

---------------------------------------------------------------------------
(* The semantic cache: similarity search over a FAISS object.              *)

\* relevance scores in hundredths
SimScores == {90, 95, 100}

\* score_threshold=0.95
ScoreThreshold == 95

\* The relevance score of a stored document for a query is the embedding
\* provider's: the program fixes only which text is embedded (the document's
\* page_content).  A text identical to the query scores 1.0; the placeholder
\* document and a report written for another tag or summary are materially
\* different texts and score below the threshold; a report written for the
\* same tag and summary is still not the query text, and its score is any.
RelevanceScores(query, doc) ==
    IF doc.page_content = query THEN {100}
    ELSE IF /\ doc.page_content.kind = "report"
            /\ doc.page_content.log_type = query.log_type
            /\ doc.page_content.context = query.context
         THEN SimScores
         ELSE {90}

\* a mutant of meets_threshold: strictly above
meets_threshold_Strict(score) == score > ScoreThreshold

\* similarity_search_with_relevance_scores(..., score_threshold=0.95) keeps a
\* result whose score is at or above the threshold
meets_threshold(score) == score >= ScoreThreshold

---------------------------------------------------------------------------
(* Server state after the module is imported.                              *)

TaskRec(pc, key, content, tag) ==
    [pc |-> pc, key |-> key, log_content |-> content, log_type |-> tag,
     detailed_findings |-> <<>>, summary_for_cache |-> <<>>,
     score |-> 0, store |-> -1, loaded |-> {},
     ai_summary |-> NoText, result |-> NoneResult]

\* a task that has ended (or was never started): its locals are gone
Ended(t) == TaskRec("done", t.key, <<>>, t.log_type)

SysInit ==
    /\ rag_chain = "unset"
    /\ startup_error = "None"
    /\ jobs = EmptyDict
    /\ analysis_cache = EmptyDict
    /\ vector_store = -1
    /\ heap = [o \in ObjIds |-> {}]
    /\ disk = {}
    /\ task = EmptyDict
    /\ llm_calls = {}
    /\ last_response = [code |-> 0]

\* the file queue is empty, no request is in progress and the worker is at
\* the top of its loop
ScraperInit ==
    /\ JOBS_DIR = EmptyDict
    /\ RESULTS_DIR = EmptyDict
    /\ ARCHIVE_DIR = {}
    /\ submits = EmptyDict
    /\ cancel = [pc |-> "idle", job_id |-> 0]
    /\ cancel_responses = EmptyDict
    /\ worker = [pc |-> "glob", job_file |-> 0]
    /\ started = <<>>

\* no stream request yet, and no spider
OtherInit ==
    /\ stream = [pc |-> "none", job_id |-> 0, events |-> <<>>]
    /\ spider = [crawled_pages |-> {}, items |-> <<>>, requests |-> {},
                 parse |-> EmptyDict]

Init ==
    /\ COMPILED_REGEX_PATTERNS = [nginx |-> <<>>, apache |-> <<>>]
    /\ log_content = <<>>
    /\ log_type = "nginx"
    /\ detailed_findings = <<>>
    /\ summary_string = <<>>
    /\ scan_pc = "off"
    /\ SysInit
    /\ ScraperInit
    /\ OtherInit
    /\ rule_files = RuleFiles

---------------------------------------------------------------------------
(* lifespan / initialize_rag_pipeline                                      *)

\* load_and_compile_regex: the rules of each file are appended to the list
\* of its tag; a file that cannot be opened is reported and passed over
load_and_compile_regex(registry) ==
    [t \in DOMAIN registry |->
        IF rule_files[t] = Missing THEN registry[t]
        ELSE LoadLines(registry[t], rule_files[t])]

\* startup succeeds: the index is loaded from disk, or created with the
\* placeholder document and saved
lifespan_ok ==
    /\ rag_chain = "unset"
    /\ COMPILED_REGEX_PATTERNS' = load_and_compile_regex(COMPILED_REGEX_PATTERNS)
    /\ rag_chain' = "chain"
    /\ startup_error' = "None"
    /\ vector_store' = 0
    /\ heap' = [heap EXCEPT ![0] = IF disk # {} THEN disk ELSE {InitialDoc}]
    /\ disk' = IF disk # {} THEN disk ELSE {InitialDoc}
    /\ UNCHANGED <<scraperVars, otherVars, scanVars, jobs, analysis_cache, task, llm_calls, last_response>>

\* the messages initialize_rag_pipeline returns as its third result
StartupErrors == {"CRITICAL: GOOGLE_API_KEY environment variable not found.", "str(e)"}

\* startup fails (no GOOGLE_API_KEY, or an exception): rag_chain is None
\* and the message is kept in app.state.startup_error
lifespan_error ==
    /\ rag_chain = "unset"
    /\ COMPILED_REGEX_PATTERNS' = load_and_compile_regex(COMPILED_REGEX_PATTERNS)
    /\ rag_chain' = "None"
    /\ startup_error' \in StartupErrors
    /\ UNCHANGED <<scraperVars, otherVars, scanVars, jobs, analysis_cache, vector_store, heap, disk, task,
                   llm_calls, last_response>>

---------------------------------------------------------------------------
(* start_log_analysis                                                      *)

\* health_check: ok with a chain, else the recorded startup error
health_check ==
    IF rag_chain = "chain"
    THEN [status |-> "ok", message |-> "AI services are running correctly."]
    ELSE [status |-> "error", reason |-> startup_error]

\* a mutant of start_log_analysis_unavailable: the submission is accepted
start_log_analysis_unavailable_Accepts ==
    /\ rag_chain = "None"
    /\ uuid4(jobs) \in Jobs
    /\ jobs' = Put(jobs, uuid4(jobs), [status |-> "processing",
                                       step |-> "Starting analysis...",
                                       result |-> NoneResult])
    /\ last_response' = [code |-> 202]
    /\ UNCHANGED <<scraperVars, otherVars, COMPILED_REGEX_PATTERNS, scanVars, rag_chain, startup_error,
                   analysis_cache, vector_store, heap, disk, task, llm_calls>>

\* if not rag_chain: raise HTTPException(503, ...)
start_log_analysis_unavailable ==
    /\ rag_chain = "None"
    /\ last_response' = [code |-> 503]
    /\ UNCHANGED <<scraperVars, otherVars, COMPILED_REGEX_PATTERNS, scanVars, rag_chain, startup_error, jobs, analysis_cache,
                   vector_store, heap, disk, task, llm_calls>>

\* a mutant of start_log_analysis: the job id is derived from the upload, so
\* that a resubmission takes the id of the earlier job
start_log_analysis_IdFromContent(file, tag) ==
    /\ rag_chain = "chain"
    /\ LET job_id == IF \E j \in DOMAIN task : task[j].key = cache_key(sha256(file), tag)
                     THEN CHOOSE j \in DOMAIN task : task[j].key = cache_key(sha256(file), tag)
                     ELSE uuid4(jobs)
           key    == cache_key(sha256(file), tag)
       IN  /\ job_id \in Jobs
           /\ job_id \in DOMAIN task => task[job_id].pc = "done"
           /\ jobs' = Put(jobs, job_id, [status |-> "processing",
                                         step |-> "Starting analysis...",
                                         result |-> NoneResult])
           /\ task' = Put(task, job_id, TaskRec("start", key, decode(file), tag))
           /\ last_response' = [code |-> 202]
    /\ UNCHANGED <<scraperVars, otherVars, COMPILED_REGEX_PATTERNS, scanVars, rag_chain, startup_error, analysis_cache,
                   vector_store, heap, disk, llm_calls>>

\* a mutant of start_log_analysis: no lookup in analysis_cache
start_log_analysis_NoDedup(file, tag) ==
    /\ rag_chain = "chain"
    /\ uuid4(jobs) \in Jobs
    /\ LET job_id == uuid4(jobs)
           key    == cache_key(sha256(file), tag)
       IN  /\ jobs' = Put(jobs, job_id, [status |-> "processing",
                                         step |-> "Starting analysis...",
                                         result |-> NoneResult])
           /\ task' = Put(task, job_id, TaskRec("start", key, decode(file), tag))
           /\ last_response' = [code |-> 202]
    /\ UNCHANGED <<scraperVars, otherVars, COMPILED_REGEX_PATTERNS, scanVars, rag_chain, startup_error, analysis_cache,
                   vector_store, heap, disk, llm_calls>>

\* The handler from the end of "await file.read()" to its return.  It runs on
\* the event loop; the background tasks run in worker threads and touch only
\* their own job record and analysis_cache, whose keys are never removed.
start_log_analysis(file, tag) ==
    /\ rag_chain = "chain"
    /\ uuid4(jobs) \in Jobs
    /\ LET job_id == uuid4(jobs)
           key    == cache_key(sha256(file), tag)
       IN  /\ IF key \in DOMAIN analysis_cache
              THEN /\ jobs' = Put(jobs, job_id, [status |-> "complete",
                                                 result |-> analysis_cache[key]])
                   /\ task' = Put(task, job_id, TaskRec("done", key, <<>>, tag))
              ELSE /\ jobs' = Put(jobs, job_id, [status |-> "processing",
                                                 step |-> "Starting analysis...",
                                                 result |-> NoneResult])
                   /\ task' = Put(task, job_id, TaskRec("start", key, decode(file), tag))
           /\ last_response' = [code |-> 202]
    /\ UNCHANGED <<scraperVars, otherVars, COMPILED_REGEX_PATTERNS, scanVars, rag_chain, startup_error, analysis_cache,
                   vector_store, heap, disk, llm_calls>>

---------------------------------------------------------------------------
(* run_analysis_in_background and analyze_log_data, one thread per job     *)

SetTask(j, t) == [task EXCEPT ![j] = t]

SetStep(j, note) == [jobs EXCEPT ![j].step = note]

\* analyze_log_data has returned r: control is back in
\* run_analysis_in_background and the locals of analyze_log_data are gone
\* (score, the relevance score of the lookup, is kept for the claims)
Returned(t, r) ==
    [TaskRec("returned", t.key, <<>>, t.log_type) EXCEPT !.result = r, !.score = t.score]

\* a mutant of BgStart: analyze_log_data without "if not detailed_findings"
BgStart_NoEmptyCheck(j) ==
    /\ task[j].pc = "start"
    /\ jobs' = SetStep(j, "Stage 1 of 2: Scanning log...")
    /\ LET t == task[j]
           r == scan_log_and_summarize(COMPILED_REGEX_PATTERNS, t.log_content, t.log_type)
       IN  IF rag_chain # "chain" \/ vector_store = -1
           THEN task' = SetTask(j, Returned(t, NotReady))
           ELSE IF r.raised
           THEN task' = SetTask(j, [t EXCEPT !.pc = "raised"])
           ELSE task' = SetTask(j, [t EXCEPT !.pc = "lookup",
                                             !.detailed_findings = r.detailed_findings,
                                             !.summary_for_cache = r.summary_string])
    /\ UNCHANGED <<scraperVars, otherVars, COMPILED_REGEX_PATTERNS, scanVars, rag_chain, startup_error, analysis_cache,
                   vector_store, heap, disk, llm_calls, last_response>>

\* jobs[job_id]["step"] = "Stage 1 ..."; then analyze_log_data up to the
\* cache lookup: the readiness test and the scan (both local)
BgStart(j) ==
    /\ task[j].pc = "start"
    /\ jobs' = SetStep(j, "Stage 1 of 2: Scanning log...")
    /\ LET t == task[j]
           r == scan_log_and_summarize(COMPILED_REGEX_PATTERNS, t.log_content, t.log_type)
       IN  IF rag_chain # "chain" \/ vector_store = -1
           THEN task' = SetTask(j, Returned(t, NotReady))
           ELSE IF r.raised
           THEN task' = SetTask(j, [t EXCEPT !.pc = "raised"])
           ELSE IF r.detailed_findings = <<>>
           THEN task' = SetTask(j, Returned(t, NoThreats))
           ELSE task' = SetTask(j, [t EXCEPT !.pc = "lookup",
                                             !.detailed_findings = r.detailed_findings,
                                             !.summary_for_cache = r.summary_string])
    /\ UNCHANGED <<scraperVars, otherVars, COMPILED_REGEX_PATTERNS, scanVars, rag_chain, startup_error, analysis_cache,
                   vector_store, heap, disk, llm_calls, last_response>>

\* vector_store.similarity_search_with_relevance_scores(cache_query, k=1,
\* score_threshold=0.95) on the object the global names, and the branch on
\* cached_results: the top document is the one with the highest score
BgLookup(j) ==
    /\ task[j].pc = "lookup"
    /\ LET t     == task[j]
           query == cache_query(t.log_type, t.summary_for_cache)
           docs  == heap[vector_store]
       IN  \E sc \in [docs -> SimScores] :
               /\ \A d \in docs : sc[d] \in RelevanceScores(query, d)
               /\ \E top \in docs :
                      /\ \A d \in docs : sc[d] <= sc[top]
                      /\ task' = SetTask(j,
                             IF meets_threshold(sc[top])
                             THEN Returned([t EXCEPT !.score = sc[top]],
                                           CacheHit(top, t.detailed_findings))
                             ELSE [t EXCEPT !.pc = "invoke", !.score = sc[top]])
    /\ UNCHANGED <<scraperVars, otherVars, COMPILED_REGEX_PATTERNS, scanVars, rag_chain, startup_error, jobs, analysis_cache,
                   vector_store, heap, disk, llm_calls, last_response>>

\* the lookup raises (the query cannot be embedded, the index cannot be
\* read): line 161 is outside the try of analyze_log_data, so the exception
\* leaves it
BgLookupRaise(j) ==
    /\ task[j].pc = "lookup"
    /\ task' = SetTask(j, [TaskRec("raised", task[j].key, <<>>, task[j].log_type)
                              EXCEPT !.result = NoneResult])
    /\ UNCHANGED <<scraperVars, otherVars, COMPILED_REGEX_PATTERNS, scanVars, rag_chain, startup_error, jobs, analysis_cache,
                   vector_store, heap, disk, llm_calls, last_response>>

\* ai_summary = rag_chain.invoke({...}); then new_doc is made and
\* vector_store.add_documents([new_doc]) begins: the global is read, and the
\* document's page_content is sent to the embedding provider
BgInvoke(j) ==
    /\ task[j].pc = "invoke"
    /\ llm_calls' = llm_calls \cup {j}
    /\ task' = SetTask(j, [task[j] EXCEPT
                              !.pc = "add_commit",
                              !.store = vector_store,
                              !.ai_summary = ReportText(j, task[j].log_type,
                                                        task[j].summary_for_cache)])
    /\ UNCHANGED <<scraperVars, otherVars, COMPILED_REGEX_PATTERNS, scanVars, rag_chain, startup_error, jobs, analysis_cache,
                   vector_store, heap, disk, last_response>>

\* a mutant of BgInvokeRaise: the exception leaves analyze_log_data
BgInvokeRaise_Propagates(j) ==
    /\ task[j].pc = "invoke"
    /\ llm_calls' = llm_calls \cup {j}
    /\ task' = SetTask(j, [TaskRec("raised", task[j].key, <<>>, task[j].log_type)
                              EXCEPT !.result = NoneResult])
    /\ UNCHANGED <<scraperVars, otherVars, COMPILED_REGEX_PATTERNS, scanVars, rag_chain, startup_error, jobs, analysis_cache,
                   vector_store, heap, disk, last_response>>

\* rag_chain.invoke raises: except Exception (line 196)
BgInvokeRaise(j) ==
    /\ task[j].pc = "invoke"
    /\ llm_calls' = llm_calls \cup {j}
    /\ task' = SetTask(j, Returned(task[j],
                                   ErrorReport("rag_chain.invoke", task[j].detailed_findings)))
    /\ UNCHANGED <<scraperVars, otherVars, COMPILED_REGEX_PATTERNS, scanVars, rag_chain, startup_error, jobs, analysis_cache,
                   vector_store, heap, disk, last_response>>

\* the FAISS objects that a variable still names once the tasks are tk and
\* the global is vs; the others are freed
Collect(h, vs, tk) ==
    LET live == {vs} \cup {tk[j].store : j \in {i \in DOMAIN tk : tk[i].pc = "add_commit"}}
    IN  [o \in DOMAIN h |-> IF o \in live THEN h[o] ELSE {}]

\* add_documents, once the embedding is back: the document is added to the
\* object that was read from the global
BgAddCommit(j) ==
    /\ task[j].pc = "add_commit"
    /\ task' = SetTask(j, [task[j] EXCEPT !.pc = "save", !.store = -1])
    /\ LET t == task[j]
           new_doc == Document(t.ai_summary, cache_query(t.log_type, t.summary_for_cache))
       IN  heap' = Collect([heap EXCEPT ![t.store] = @ \cup {new_doc}], vector_store, task')
    /\ UNCHANGED <<scraperVars, otherVars, COMPILED_REGEX_PATTERNS, scanVars, rag_chain, startup_error, jobs, analysis_cache,
                   vector_store, disk, llm_calls, last_response>>

\* vector_store.save_local(FAISS_INDEX_PATH): the object the global names now
BgSave(j) ==
    /\ task[j].pc = "save"
    /\ disk' = heap[vector_store]
    /\ task' = SetTask(j, [task[j] EXCEPT !.pc = "load"])
    /\ UNCHANGED <<scraperVars, otherVars, COMPILED_REGEX_PATTERNS, scanVars, rag_chain, startup_error, jobs, analysis_cache,
                   vector_store, heap, llm_calls, last_response>>

\* FAISS.load_local(FAISS_INDEX_PATH, ...): the files are read
BgLoadRead(j) ==
    /\ task[j].pc = "load"
    /\ task' = SetTask(j, [task[j] EXCEPT !.pc = "load_assign", !.loaded = disk])
    /\ UNCHANGED <<scraperVars, otherVars, COMPILED_REGEX_PATTERNS, scanVars, rag_chain, startup_error, jobs, analysis_cache,
                   vector_store, heap, disk, llm_calls, last_response>>

\* vector_store = <the loaded object>; return {... "Newly Generated by AI"}
BgLoadAssign(j) ==
    /\ task[j].pc = "load_assign"
    /\ vector_store' = j
    /\ task' = SetTask(j, Returned(task[j],
                                   Generated(task[j].ai_summary, task[j].detailed_findings)))
    /\ heap' = Collect([heap EXCEPT ![j] = task[j].loaded], j, task')
    /\ UNCHANGED <<scraperVars, otherVars, COMPILED_REGEX_PATTERNS, scanVars, rag_chain, startup_error, jobs, analysis_cache,
                   disk, llm_calls, last_response>>

\* add_documents (embedding), save_local or load_local raises: except
\* Exception (line 196)
BgPersistRaise(j) ==
    /\ task[j].pc \in {"add_commit", "save", "load"}
    /\ task' = SetTask(j, Returned(task[j],
                                   ErrorReport("vector_store", task[j].detailed_findings)))
    /\ heap' = Collect(heap, vector_store, task')
    /\ UNCHANGED <<scraperVars, otherVars, COMPILED_REGEX_PATTERNS, scanVars, rag_chain, startup_error, jobs, analysis_cache,
                   vector_store, disk, llm_calls, last_response>>

\* jobs[job_id]["step"] = "Stage 2 ..."; time.sleep(2);
\* analysis_cache[content_hash] = analysis_result
\* (the note is written to the task's own record, which only stream_results
\* reads, and it stays in place until the record is replaced)
BgStore(j) ==
    /\ task[j].pc = "returned"
    /\ jobs' = SetStep(j, "Stage 2 of 2: Generating AI report...")
    /\ analysis_cache' = Put(analysis_cache, task[j].key, task[j].result)
    /\ task' = SetTask(j, [task[j] EXCEPT !.pc = "finish", !.score = 0])
    /\ UNCHANGED <<scraperVars, otherVars, COMPILED_REGEX_PATTERNS, scanVars, rag_chain, startup_error, vector_store, heap, disk, llm_calls, last_response>>

\* jobs[job_id] = {"status": "complete", "result": analysis_result}
BgFinish(j) ==
    /\ task[j].pc = "finish"
    /\ jobs' = [jobs EXCEPT ![j] = [status |-> "complete", result |-> task[j].result]]
    /\ task' = SetTask(j, Ended(task[j]))
    /\ UNCHANGED <<scraperVars, otherVars, COMPILED_REGEX_PATTERNS, scanVars, rag_chain, startup_error, analysis_cache,
                   vector_store, heap, disk, llm_calls, last_response>>

\* except Exception as e: jobs[job_id] = {"status": "failed", ...}
BgExcept(j) ==
    /\ task[j].pc = "raised"
    /\ jobs' = [jobs EXCEPT ![j] = [status |-> "failed", result |-> [error |-> "str(e)"]]]
    /\ task' = SetTask(j, Ended(task[j]))
    /\ UNCHANGED <<scraperVars, otherVars, COMPILED_REGEX_PATTERNS, scanVars, rag_chain, startup_error, analysis_cache,
                   vector_store, heap, disk, llm_calls, last_response>>

---------------------------------------------------------------------------
(* The server.                                                             *)

Next ==
    \/ lifespan_ok
    \/ lifespan_error
    \/ start_log_analysis_unavailable
    \/ \E sub \in Submissions :
           uuid4(jobs) <= MaxJobs /\ start_log_analysis(sub[1], sub[2])
    \/ \E j \in DOMAIN task : BgStart(j)
    \/ \E j \in DOMAIN task : BgLookup(j)
    \/ \E j \in DOMAIN task : BgLookupRaise(j)
    \/ \E j \in DOMAIN task : BgInvoke(j)
    \/ \E j \in DOMAIN task : BgInvokeRaise(j)
    \/ \E j \in DOMAIN task : BgAddCommit(j)
    \/ \E j \in DOMAIN task : BgSave(j)
    \/ \E j \in DOMAIN task : BgLoadRead(j)
    \/ \E j \in DOMAIN task : BgLoadAssign(j)
    \/ \E j \in DOMAIN task : BgPersistRaise(j)
    \/ \E j \in DOMAIN task : BgStore(j)
    \/ \E j \in DOMAIN task : BgFinish(j)
    \/ \E j \in DOMAIN task : BgExcept(j)

Spec == Init /\ [][Next]_vars

---------------------------------------------------------------------------
(* The server under a burst of uploads with one threat profile, none of    *)
(* whose calls fails: the runs of Spec in which up to MaxInserts jobs go    *)
(* through lookup, generation and insert side by side.                     *)

\* the uploads that hold the two attacks, in either order
InsertSubmissions == {sub \in Submissions : sub[2] = "nginx" /\ Len(decode(sub[1])) = 3}

NextInsert ==
    \/ lifespan_ok
    \/ \E sub \in InsertSubmissions :
           uuid4(jobs) <= MaxInserts /\ start_log_analysis(sub[1], sub[2])
    \/ \E j \in DOMAIN task : BgStart(j)
    \/ \E j \in DOMAIN task : BgLookup(j)
    \/ \E j \in DOMAIN task : BgInvoke(j)
    \/ \E j \in DOMAIN task : BgAddCommit(j)
    \/ \E j \in DOMAIN task : BgSave(j)
    \/ \E j \in DOMAIN task : BgLoadRead(j)
    \/ \E j \in DOMAIN task : BgLoadAssign(j)
    \/ \E j \in DOMAIN task : BgStore(j)
    \/ \E j \in DOMAIN task : BgFinish(j)

SpecInsert == Init /\ [][NextInsert]_vars

---------------------------------------------------------------------------
(* The interactive scraper: a file queue between the API and the worker.   *)
(* The handlers are plain functions that FastAPI runs in its thread pool,  *)
(* the worker is another process: every file operation is a step of its    *)
(* own.  A file is written in one piece.                                   *)

\* the job ids uuid4 can return; the order of the ids is the order of the
\* file names, which is not the order of submission
ScrapeIds == 1..MaxScrapes

\* an id that uuid4 never returns (a request for a job that does not exist)
UnknownId == 0

\* req.model_dump() with job_id, start_url and domain_to_check
JobData(job_id) == [job_id |-> job_id]

Queued == [status |-> "queued", message |-> "Job is in the queue..."]

Processing(stage) == [status |-> "processing", message |-> stage]

Complete == [status |-> "complete", result |-> "final_report"]

Failed == [status |-> "failed", error |-> "str(e)"]

\* f without the key k (a file is unlinked or moved away)
Del(f, k) == [x \in DOMAIN f \ {k} |-> f[x]]

\* the ids whose start_interactive_scrape call has returned its job_id
Issued == {id \in DOMAIN submits : submits[id] = "returned"}

\* start_interactive_scrape, lines 393-401: the id is made and the job
\* descriptor is written
start_interactive_scrape_job(job_id) ==
    /\ job_id \in ScrapeIds \ DOMAIN submits
    /\ submits' = Put(submits, job_id, "job_written")
    /\ JOBS_DIR' = Put(JOBS_DIR, job_id, JobData(job_id))
    /\ UNCHANGED <<otherVars, COMPILED_REGEX_PATTERNS, scanVars, sysVars, RESULTS_DIR, ARCHIVE_DIR,
                   cancel, cancel_responses, worker, started>>

\* start_interactive_scrape, lines 403-406: the result record "queued" is
\* written and the job_id is returned
start_interactive_scrape_result(job_id) ==
    /\ job_id \in DOMAIN submits
    /\ submits[job_id] = "job_written"
    /\ RESULTS_DIR' = Put(RESULTS_DIR, job_id, Queued)
    /\ submits' = Put(submits, job_id, "returned")
    /\ UNCHANGED <<otherVars, COMPILED_REGEX_PATTERNS, scanVars, sysVars, JOBS_DIR, ARCHIVE_DIR,
                   cancel, cancel_responses, worker, started>>

\* get_scraper_job_results: 404 without a result file, else its content
get_scraper_job_results(job_id) ==
    IF job_id \notin DOMAIN RESULTS_DIR
    THEN [code |-> 404]
    ELSE [code |-> 200, body |-> RESULTS_DIR[job_id]]

\* a mutant of cancel_interactive_scrape_check: no test of job_file.is_file()
cancel_interactive_scrape_check_NoTest(job_id) ==
    /\ cancel.pc = "idle"
    /\ cancel' = [pc |-> "result", job_id |-> job_id]
    /\ JOBS_DIR' = Del(JOBS_DIR, job_id)
    /\ UNCHANGED <<otherVars, COMPILED_REGEX_PATTERNS, scanVars, sysVars, RESULTS_DIR, ARCHIVE_DIR,
                   submits, cancel_responses, worker, started>>

\* cancel_interactive_scrape, lines 414-419: 404 when the descriptor is not
\* in the queue.  A client knows the ids that were returned to it.
cancel_interactive_scrape_check(job_id) ==
    /\ cancel.pc = "idle"
    /\ IF job_id \notin DOMAIN JOBS_DIR
       THEN /\ cancel_responses' = Put(cancel_responses, job_id, 404)
            /\ UNCHANGED cancel
       ELSE /\ cancel' = [pc |-> "unlink_job", job_id |-> job_id]
            /\ UNCHANGED cancel_responses
    /\ UNCHANGED <<otherVars, COMPILED_REGEX_PATTERNS, scanVars, sysVars, JOBS_DIR, RESULTS_DIR,
                   ARCHIVE_DIR, submits, worker, started>>

\* job_file.unlink() (line 422); OSError when the worker has moved the file
\* away since the test: 500 (lines 435-437)
cancel_interactive_scrape_unlink ==
    /\ cancel.pc = "unlink_job"
    /\ IF cancel.job_id \in DOMAIN JOBS_DIR
       THEN /\ JOBS_DIR' = Del(JOBS_DIR, cancel.job_id)
            /\ cancel' = [cancel EXCEPT !.pc = "result"]
            /\ UNCHANGED cancel_responses
       ELSE /\ cancel_responses' = Put(cancel_responses, cancel.job_id, 500)
            /\ cancel' = [pc |-> "idle", job_id |-> 0]
            /\ UNCHANGED JOBS_DIR
    /\ UNCHANGED <<otherVars, COMPILED_REGEX_PATTERNS, scanVars, sysVars, RESULTS_DIR, ARCHIVE_DIR,
                   submits, worker, started>>

\* a mutant of cancel_interactive_scrape_result: the result file is kept
cancel_interactive_scrape_result_Keep ==
    /\ cancel.pc = "result"
    /\ cancel_responses' = Put(cancel_responses, cancel.job_id, 200)
    /\ cancel' = [pc |-> "idle", job_id |-> 0]
    /\ UNCHANGED <<otherVars, COMPILED_REGEX_PATTERNS, scanVars, sysVars, JOBS_DIR, RESULTS_DIR,
                   ARCHIVE_DIR, submits, worker, started>>

\* lines 426-434: the result file is removed if it is there; 200
cancel_interactive_scrape_result ==
    /\ cancel.pc = "result"
    /\ RESULTS_DIR' = Del(RESULTS_DIR, cancel.job_id)
    /\ cancel_responses' = Put(cancel_responses, cancel.job_id, 200)
    /\ cancel' = [pc |-> "idle", job_id |-> 0]
    /\ UNCHANGED <<otherVars, COMPILED_REGEX_PATTERNS, scanVars, sysVars, JOBS_DIR, ARCHIVE_DIR,
                   submits, worker, started>>

\* sorted(JOBS_DIR.glob("*.json")) and job_files[0]; with no file the loop
\* sleeps and lists again
worker_glob ==
    /\ worker.pc = "glob"
    /\ DOMAIN JOBS_DIR # {}
    /\ worker' = [pc |-> "open",
                  job_file |-> CHOOSE f \in DOMAIN JOBS_DIR : \A g \in DOMAIN JOBS_DIR : f <= g]
    /\ UNCHANGED <<otherVars, COMPILED_REGEX_PATTERNS, scanVars, sysVars, JOBS_DIR, RESULTS_DIR,
                   ARCHIVE_DIR, submits, cancel, cancel_responses, started>>

\* open(job_file), json.load, and process.start() with the job data; a file
\* that is gone raises, which the loop catches (line 151)
worker_open ==
    /\ worker.pc = "open"
    /\ IF worker.job_file \in DOMAIN JOBS_DIR
       THEN /\ started' = Append(started, JOBS_DIR[worker.job_file].job_id)
            /\ worker' = [worker EXCEPT !.pc = "run_crawl"]
       ELSE /\ worker' = [worker EXCEPT !.pc = "finally"]
            /\ UNCHANGED started
    /\ UNCHANGED <<otherVars, COMPILED_REGEX_PATTERNS, scanVars, sysVars, JOBS_DIR, RESULTS_DIR,
                   ARCHIVE_DIR, submits, cancel, cancel_responses>>

\* the job the child process is running
CrawlJob == started[Len(started)]

\* run_crawl, lines 33-35: the record "processing", stage 1
run_crawl_begin ==
    /\ worker.pc = "run_crawl"
    /\ RESULTS_DIR' = Put(RESULTS_DIR, CrawlJob, Processing("Stage 1 of 3"))
    /\ worker' = [worker EXCEPT !.pc = "crawl"]
    /\ UNCHANGED <<otherVars, COMPILED_REGEX_PATTERNS, scanVars, sysVars, JOBS_DIR, ARCHIVE_DIR,
                   submits, cancel, cancel_responses, started>>

\* lines 37-64: the crawl has ended with data; the record "processing",
\* stage 2
run_crawl_crawled ==
    /\ worker.pc = "crawl"
    /\ RESULTS_DIR' = Put(RESULTS_DIR, CrawlJob, Processing("Stage 2 of 3"))
    /\ worker' = [worker EXCEPT !.pc = "analysis"]
    /\ UNCHANGED <<otherVars, COMPILED_REGEX_PATTERNS, scanVars, sysVars, JOBS_DIR, ARCHIVE_DIR,
                   submits, cancel, cancel_responses, started>>

\* lines 66-121: the analysis is back; the records "processing", stage 3,
\* and "complete"; the child ends
run_crawl_complete ==
    /\ worker.pc = "analysis"
    /\ RESULTS_DIR' = Put(RESULTS_DIR, CrawlJob, Complete)
    /\ worker' = [worker EXCEPT !.pc = "finally"]
    /\ UNCHANGED <<otherVars, COMPILED_REGEX_PATTERNS, scanVars, sysVars, JOBS_DIR, ARCHIVE_DIR,
                   submits, cancel, cancel_responses, started>>

\* lines 123-127: the crawl or the analysis has raised; the record "failed";
\* the child ends
run_crawl_except ==
    /\ worker.pc \in {"crawl", "analysis"}
    /\ RESULTS_DIR' = Put(RESULTS_DIR, CrawlJob, Failed)
    /\ worker' = [worker EXCEPT !.pc = "finally"]
    /\ UNCHANGED <<otherVars, COMPILED_REGEX_PATTERNS, scanVars, sysVars, JOBS_DIR, ARCHIVE_DIR,
                   submits, cancel, cancel_responses, started>>

\* a mutant of worker_finally: the job file is copied to the archive and
\* stays in the jobs directory
worker_finally_Keep ==
    /\ worker.pc = "finally"
    /\ IF worker.job_file \in DOMAIN JOBS_DIR
       THEN /\ ARCHIVE_DIR' = ARCHIVE_DIR \cup {<<worker.job_file, "job">>}
            /\ Len(started) < MaxScrapes + 1
            /\ worker' = [pc |-> "glob", job_file |-> 0]
       ELSE /\ worker' = [pc |-> "ended", job_file |-> 0]
            /\ UNCHANGED ARCHIVE_DIR
    /\ UNCHANGED <<otherVars, COMPILED_REGEX_PATTERNS, scanVars, sysVars, RESULTS_DIR,
                   JOBS_DIR, submits, cancel, cancel_responses, started>>

\* finally (lines 153-162): the job file is moved to the archive.  If it is
\* gone, rename raises, and so does os.remove in the handler: nothing
\* catches that, and the loop ends.
worker_finally ==
    /\ worker.pc = "finally"
    /\ IF worker.job_file \in DOMAIN JOBS_DIR
       THEN /\ ARCHIVE_DIR' = ARCHIVE_DIR \cup {<<worker.job_file, "job">>}
            /\ JOBS_DIR' = Del(JOBS_DIR, worker.job_file)
            /\ worker' = [pc |-> "glob", job_file |-> 0]
       ELSE /\ worker' = [pc |-> "ended", job_file |-> 0]
            /\ UNCHANGED <<ARCHIVE_DIR, JOBS_DIR>>
    /\ UNCHANGED <<otherVars, COMPILED_REGEX_PATTERNS, scanVars, sysVars, RESULTS_DIR,
                   submits, cancel, cancel_responses, started>>

NextScraper ==
    \/ \E job_id \in ScrapeIds : start_interactive_scrape_job(job_id)
    \/ \E job_id \in ScrapeIds : start_interactive_scrape_result(job_id)
    \/ \E job_id \in Issued \cup {UnknownId} : cancel_interactive_scrape_check(job_id)
    \/ cancel_interactive_scrape_unlink
    \/ cancel_interactive_scrape_result
    \/ worker_glob
    \/ worker_open
    \/ run_crawl_begin
    \/ run_crawl_crawled
    \/ run_crawl_complete
    \/ run_crawl_except
    \/ worker_finally

SpecScraper == Init /\ [][NextScraper]_vars

\* the worker loop runs while the process lives, a started child process
\* runs to its end, and a request that has begun is served to its end
SpecScraperFair ==
    /\ SpecScraper
    /\ WF_vars(worker_glob)
    /\ WF_vars(worker_open)
    /\ WF_vars(run_crawl_begin)
    /\ WF_vars(run_crawl_crawled)
    /\ WF_vars(run_crawl_complete \/ run_crawl_except)
    /\ WF_vars(worker_finally)
    /\ WF_vars(\E job_id \in ScrapeIds : start_interactive_scrape_result(job_id))
    /\ WF_vars(cancel_interactive_scrape_unlink)
    /\ WF_vars(cancel_interactive_scrape_result)

---------------------------------------------------------------------------
(* Claims about the server (checked under Spec).                           *)

HasSource(r, src) == "source" \in DOMAIN r /\ r.source = src

FromCache(r) == HasSource(r, "Retrieved from Semantic Cache")

FromLLM(r) == HasSource(r, "Newly Generated by AI")

IsErrorReport(r) ==
    /\ "details" \in DOMAIN r
    /\ r.summary.kind = "ai_analysis_error"

\* the analysis result of job j: the one its task holds, else the one in
\* its job record
ResultOf(j) ==
    IF task[j].pc \in {"returned", "finish"} THEN task[j].result ELSE jobs[j].result

\* every document that is in some FAISS object or on disk
StoredDocs == disk \cup UNION {heap[o] : o \in ObjIds}

GenerationPath == {"invoke", "add_commit", "save", "load", "load_assign"}

\* C4: with at least one Finding, the result comes from the semantic cache
\* if and only if the similarity of the nearest stored entry is at or above
\* 0.95; on a hit the LLM is not invoked and nothing is added to the cache;
\* below the threshold the request goes to generation.
C4_HitIffThreshold ==
    /\ \A j \in DOMAIN task :
           task[j].score # 0 =>
               /\ task[j].score >= ScoreThreshold <=>
                      (task[j].pc = "returned" /\ FromCache(task[j].result))
               /\ task[j].score < ScoreThreshold <=>
                      \/ task[j].pc \in GenerationPath
                      \/ /\ task[j].pc = "returned"
                         /\ \/ FromLLM(task[j].result)
                            \/ IsErrorReport(task[j].result)
    /\ \A j \in DOMAIN task :
           FromCache(ResultOf(j)) =>
               /\ j \notin llm_calls
               /\ \A d \in StoredDocs : d.page_content.kind = "report" => d.page_content.by # j

\* a lookup whose nearest entry scores exactly 0.95 has returned the entry
C4_Witness ==
    \E j \in DOMAIN task :
        /\ task[j].pc = "returned"
        /\ task[j].score = ScoreThreshold
        /\ FromCache(task[j].result)

\* job j has gone through add, save and reload with its own report
Inserted(j) ==
    /\ task[j].pc \in {"returned", "finish", "done"}
    /\ FromLLM(ResultOf(j))
    /\ ResultOf(j).summary.by = j

DocBy(j, docs) == \E d \in docs : d.page_content.kind = "report" /\ d.page_content.by = j

\* the cache key of job j's lookup
QueryOf(j) == cache_query(task[j].log_type, task[j].summary_for_cache)

\* C5 (as claimed): once a report has been generated and inserted for cache
\* key K (its job is through add, save and reload, and the entry is in the
\* index), a lookup with the identical key K hits and returns that report,
\* and a lookup whose key differs from the key of every entry misses.
C5_RoundTrip ==
    [][\A j \in DOMAIN task :
           (task[j].pc = "lookup" /\ task'[j].pc \notin {"lookup", "raised"}) =>
               LET same     == {d \in heap[vector_store] : d.source_query = QueryOf(j)}
                   inserted == {d \in same \cap disk : Inserted(d.page_content.by)}
               IN  /\ inserted # {} =>
                          /\ task'[j].pc = "returned"
                          /\ FromCache(task'[j].result)
                          /\ task'[j].result.summary \in {d.page_content : d \in inserted}
                   /\ same = {} => task'[j].pc = "invoke"]_vars

SameSubmission(i, j) == i < j /\ task[i].key = task[j].key

\* C6 (as claimed): a submission with the content and tag of an earlier
\* submission is complete at submission time and never runs the pipeline.
C6_DuplicateShortCircuits ==
    \A i, j \in DOMAIN task :
        SameSubmission(i, j) => task[j].pc = "done" /\ jobs[j].status = "complete"

\* C6 (amended): a submission whose (content hash, tag) key is in
\* analysis_cache, that is, an earlier submission of the same content and
\* tag has stored its result, is marked complete with the stored result
\* by the handler, gets no background task, and leaves the semantic cache,
\* the LLM and analysis_cache untouched.
C6_StoredDuplicateShortCircuits ==
    [][\A j \in DOMAIN jobs' \ DOMAIN jobs :
           /\ task'[j].key \in DOMAIN analysis_cache <=> task'[j].pc = "done"
           /\ task'[j].key \in DOMAIN analysis_cache =>
                  /\ \E i \in DOMAIN task : task[i].key = task'[j].key
                  /\ jobs'[j] = [status |-> "complete",
                                 result |-> analysis_cache[task'[j].key]]
                  /\ UNCHANGED <<analysis_cache, vector_store, heap, disk, llm_calls>>
                  /\ \A i \in DOMAIN task : task'[i] = task[i]]_vars

\* a duplicate holds the report the LLM wrote for the earlier job without a
\* call of its own
C6_Witness ==
    \E i, j \in DOMAIN task :
        /\ SameSubmission(i, j)
        /\ jobs[j].status = "complete"
        /\ FromLLM(jobs[j].result)
        /\ jobs[j].result.summary.by = i
        /\ j \notin llm_calls

\* C7 (as claimed): of two submissions of the same content and tag, the
\* first report is 'generated' and the second is 'cache'.
C7_SecondFromCache ==
    \A i, j \in DOMAIN task :
        ( /\ SameSubmission(i, j)
          /\ jobs[i].status = "complete"
          /\ jobs[j].status = "complete"
          /\ FromLLM(jobs[i].result) ) => FromCache(jobs[j].result)

Terminal(rec) == rec.status \in {"complete", "failed"}

\* C8: a job's status only advances along queued -> processing ->
\* {complete | failed}, and a record that is complete or failed is never
\* changed again by any action.
C8_StatusAdvances ==
    [][/\ \A j \in DOMAIN jobs :
              /\ j \in DOMAIN jobs'
              /\ Terminal(jobs[j]) => jobs'[j] = jobs[j]
              /\ jobs'[j].status # jobs[j].status =>
                     jobs[j].status \in {"queued", "processing"} /\ Terminal(jobs'[j])
       /\ \A j \in DOMAIN jobs' :
              jobs'[j].status \in {"queued", "processing", "complete", "failed"}]_vars

\* one job has failed, another is complete, and a third action followed
C8_Witness ==
    \E i, j \in DOMAIN jobs :
        /\ jobs[i].status = "failed"
        /\ jobs[j].status = "complete"

\* C9 (as claimed): when two jobs both miss the cache and both insert, the
\* saved index and the index in memory hold both entries once both are
\* through.
C9_BothEntriesKept ==
    \A i, j \in DOMAIN task :
        (i # j /\ Inserted(i) /\ Inserted(j)) =>
            /\ DocBy(i, disk) /\ DocBy(j, disk)
            /\ DocBy(i, heap[vector_store]) /\ DocBy(j, heap[vector_store])

\* C10 (as claimed): at most one job at a time is between the start of
\* add_documents and the end of the reload.
C10_InsertsSerialized ==
    Cardinality({j \in DOMAIN task :
                    task[j].pc \in {"add_commit", "save", "load", "load_assign"}}) <= 1

\* the result is the in-band error report written for the exception e
IsErrorOf(r, e) == IsErrorReport(r) /\ r.summary.error = e

\* C13 (as claimed): when the LLM has produced a report and adding, saving
\* or reloading the index then fails, analyze_log_data still returns the
\* generated report together with the Findings.
C13_PersistFailureServesReport ==
    [][\A j \in DOMAIN task :
           ( /\ task[j].pc \in {"add_commit", "save", "load", "load_assign"}
             /\ task'[j].pc = "returned" ) =>
               task'[j].result = Generated(task[j].ai_summary, task[j].detailed_findings)]_vars

\* C14 (as claimed): a cache lookup that raises is treated as a miss: the
\* task leaves its lookup to generation (or returns the hit), and never to
\* the exception handler that marks the job failed.
C14_LookupErrorIsMiss ==
    [][\A j \in DOMAIN task :
           task[j].pc = "lookup" => task'[j].pc \in {"lookup", "invoke", "returned"}]_vars

\* C15: when rag_chain.invoke fails, analyze_log_data raises nothing and
\* returns the marked error report paired with the Findings of the scan
\* (which are not empty); the step adds nothing to the semantic cache, and
\* no index in memory or on disk ever holds an entry of that job.
C15_LLMFailureInBand ==
    /\ [][\A j \in DOMAIN task :
              (task[j].pc = "invoke" /\ task'[j].pc \notin {"invoke", "add_commit"}) =>
                  /\ task'[j].pc = "returned"
                  /\ task'[j].result =
                         ErrorReport("rag_chain.invoke", task[j].detailed_findings)
                  /\ task[j].detailed_findings # <<>>
                  /\ UNCHANGED <<vector_store, heap, disk>>]_vars
    /\ [](\A j \in DOMAIN task :
              IsErrorOf(ResultOf(j), "rag_chain.invoke") => ~DocBy(j, StoredDocs))

\* the LLM call of a job has failed and the job holds the error report with
\* its Findings, while another job's entry is in the index
C15_Witness ==
    \E j \in DOMAIN task :
        /\ task[j].pc = "returned"
        /\ IsErrorOf(task[j].result, "rag_chain.invoke")
        /\ task[j].result.details.regex_findings # <<>>
        /\ j \in llm_calls
        /\ \E i \in DOMAIN task : DocBy(i, heap[vector_store])

\* C16 (as claimed): a job whose LLM call failed ends failed, never
\* complete.
C16_LLMFailureFails ==
    \A j \in DOMAIN jobs :
        (j \in llm_calls /\ IsErrorOf(jobs[j].result, "rag_chain.invoke")) =>
            jobs[j].status # "complete"

\* the bytes of job j's upload (the content hash stands for them)
UploadOf(j) == task[j].key[1].sha256

\* the scan of job j's upload under its tag yields no Finding
NoFindings(j) ==
    scan_log_and_summarize(COMPILED_REGEX_PATTERNS, decode(UploadOf(j)),
                           task[j].log_type).detailed_findings = <<>>

\* C17: a job whose scan yields no Finding (no matching line, or a tag that
\* is not in the registry) never fails and ends complete with the "No
\* Threats Detected" report and empty Findings; its task never reaches the
\* cache lookup or the generation, it never calls the LLM, no index ever
\* holds an entry of it, and none of its steps changes the semantic cache.
C17_NoThreatsFrame ==
    /\ [](\A j \in DOMAIN task :
              NoFindings(j) =>
                  /\ task[j].pc \in {"start", "returned", "finish", "done"}
                  /\ j \notin llm_calls
                  /\ ~DocBy(j, StoredDocs)
                  /\ jobs[j].status # "failed"
                  /\ task[j].pc # "start" => ResultOf(j) = NoThreats
                  /\ task[j].pc = "done" =>
                         jobs[j] = [status |-> "complete", result |-> NoThreats])
    /\ [][\A j \in DOMAIN task :
              (NoFindings(j) /\ task'[j] # task[j]) =>
                  UNCHANGED <<vector_store, heap, disk, llm_calls>>]_vars

\* a job with an unknown tag and a job whose line matches no rule are both
\* complete with "No Threats Detected"
C17_Witness ==
    \E i, j \in DOMAIN task :
        /\ task[i].log_type \notin DOMAIN COMPILED_REGEX_PATTERNS
        /\ task[j].log_type \in DOMAIN COMPILED_REGEX_PATTERNS
        /\ UploadOf(j) # <<>>
        /\ \A k \in {i, j} :
               /\ NoFindings(k)
               /\ jobs[k] = [status |-> "complete", result |-> NoThreats]

C30_DedupHoldsOnlySuccess ==
    \A k \in DOMAIN analysis_cache :
        ~IsErrorReport(analysis_cache[k]) /\ analysis_cache[k] # NotReady

---------------------------------------------------------------------------
(* Claims about the semantic cache under concurrent inserts (checked under *)
(* SpecInsert).                                                            *)

\* C11 (as claimed): once the insert of a job (add, save, reload) is
\* complete, every cache lookup that starts afterwards is evaluated against
\* an index that holds the job's entry.
C11_ReadAfterWrite ==
    [][\A j \in DOMAIN task :
           (task[j].pc = "lookup" /\ task'[j].pc # "lookup") =>
               \A i \in DOMAIN task : Inserted(i) => DocBy(i, heap[vector_store])]_vars

\* C12 (as claimed): an entry of the saved index is never removed: the saved
\* index after any step holds every entry it held before.
C12_PersistedNeverRemoved ==
    [][\A d \in disk : d \in disk']_vars

---------------------------------------------------------------------------
(* Claims about the scraper queue (checked under SpecScraper).             *)

\* the jobs for which a crawl was started
Started == {started[k] : k \in 1..Len(started)}

\* the descriptor of job j, whose id was returned to the client, has left
\* the queue without the worker having read it: a cancel has deleted it
CancelledQueued(j) == j \in Issued /\ j \notin DOMAIN JOBS_DIR /\ j \notin Started

\* C18: a scraper job whose descriptor a cancel deleted before the worker
\* read it is never executed (it stays unread and no crawl is ever started
\* for it), and once that cancel has returned the job has no result record:
\* a poll is answered with 404.
C18_CancelledNeverRuns ==
    /\ [](\A j \in ScrapeIds :
              CancelledQueued(j) =>
                  \/ cancel.pc = "result" /\ cancel.job_id = j
                  \/ get_scraper_job_results(j) = [code |-> 404])
    /\ [][\A j \in ScrapeIds :
              CancelledQueued(j) => j \notin DOMAIN JOBS_DIR' /\ j \notin Started']_vars

\* a job was cancelled while queued, and the worker has since run a job
\* whose file name comes later
C18_Witness ==
    \E j, i \in ScrapeIds :
        /\ CancelledQueued(j)
        /\ j \in DOMAIN cancel_responses
        /\ cancel_responses[j] = 200
        /\ j < i
        /\ i \in Started
        /\ get_scraper_job_results(i) = [code |-> 200, body |-> Complete]

StatusRank(rec) ==
    IF rec.status = "queued" THEN 0 ELSE IF rec.status = "processing" THEN 1 ELSE 2

\* C20 (as claimed): the status in a job's result record only advances:
\* no step takes it back to an earlier status, and a record that is
\* complete or failed is never written again.
C20_ScraperStatusAdvances ==
    [][\A j \in DOMAIN RESULTS_DIR \cap DOMAIN RESULTS_DIR' :
           /\ StatusRank(RESULTS_DIR'[j]) >= StatusRank(RESULTS_DIR[j])
           /\ StatusRank(RESULTS_DIR[j]) = 2 => RESULTS_DIR'[j] = RESULTS_DIR[j]]_vars

\* C26 (as claimed): no job ends the worker loop, whatever a cancel request
\* does to its descriptor: after every job the worker lists the jobs
\* directory again.
C26_WorkerLoopNeverEnds == worker.pc # "ended"

\* the worker is between process.start() and the end of process.join()
InCrawl == worker.pc \in {"run_crawl", "crawl", "analysis"}

\* the jobs whose descriptor the worker has handled: the crawls that have
\* ended
Handled ==
    {started[k] : k \in 1..(IF InCrawl THEN Len(started) - 1 ELSE Len(started))}

\* no crawl is started twice, and a crawl runs for the descriptor the worker
\* holds
ExecutedOnce ==
    /\ \A k, l \in 1..Len(started) : started[k] = started[l] => k = l
    /\ InCrawl => started # <<>> /\ CrawlJob = worker.job_file

\* a crawl is started only by the worker that has no crawl running; when
\* the worker leaves the finally block the descriptor is no longer in the
\* jobs directory; and a descriptor is selected only when those of all
\* ended crawls are out of the jobs directory
OneAtATime ==
    /\ started' # started =>
           /\ ~InCrawl
           /\ started' = Append(started, worker.job_file)
    /\ (worker.pc = "finally" /\ worker'.pc # "finally") =>
           worker.job_file \notin DOMAIN JOBS_DIR'
    /\ (worker.pc = "glob" /\ worker'.pc = "open") =>
           /\ Handled \cap DOMAIN JOBS_DIR = {}
           /\ worker'.job_file \notin Handled

\* C28: each job descriptor is executed at most once and crawls do not
\* overlap: the worker starts a crawl only when none is running, and when a
\* job has ended its descriptor is out of the jobs directory (archived)
\* before the next descriptor is selected, so that it is not selected
\* again.
C28_OneCrawlAtATime == []ExecutedOnce /\ [][OneAtATime]_vars

\* the second crawl is running, and the descriptor of the first is in the
\* archive
C28_Witness ==
    /\ Len(started) = 2
    /\ worker.pc = "crawl"
    /\ <<started[1], "job">> \in ARCHIVE_DIR
    /\ started[1] \notin DOMAIN JOBS_DIR

\* a cancel request was made for job j
CancelRequested(j) ==
    \/ j \in DOMAIN cancel_responses
    \/ cancel.pc # "idle" /\ cancel.job_id = j

\* job j has a result record with status complete or failed
HasTerminalResult(j) == j \in DOMAIN RESULTS_DIR /\ Terminal(RESULTS_DIR[j])

\* C27 (as claimed): with the worker and the handlers scheduled fairly and
\* every crawl ending, a submitted job for which no cancel request is made
\* comes to have a result record with status complete or failed.
C27_EveryJobEnds ==
    \A j \in ScrapeIds :
        (j \in DOMAIN submits) ~> (CancelRequested(j) \/ HasTerminalResult(j))

---------------------------------------------------------------------------
(* The status stream of a log-analysis job (main.py:331-343), with the     *)
(* background tasks running beside it.                                     *)

\* the uploads of SpecStream: one with findings on a known log type, and
\* the same on a log type without rules
StreamSubmissions ==
    { << <<39, 10, 60>>, "nginx" >>,
      << <<39, 10, 60>>, "iis" >> }

Event(event, job_info) == [event |-> event, data |-> job_info]

\* GET /stream-results/{job_id}: 404 for an id that is not in jobs, else the
\* response is opened on event_generator()
stream_results(job_id) ==
    /\ stream.pc = "none"
    /\ stream' = [pc |-> IF job_id \in DOMAIN jobs THEN "open" ELSE "404",
                  job_id |-> job_id,
                  events |-> <<>>]
    /\ UNCHANGED <<rule_files, spider, scraperVars, COMPILED_REGEX_PATTERNS,
                   scanVars, sysVars>>

\* one turn of the loop of event_generator() that goes on after the end
\* event
event_generator_NoBreak ==
    /\ stream.pc = "open"
    /\ Len(stream.events) < MaxEvents
    /\ LET job_info == jobs[stream.job_id]
       IN  stream' = [stream EXCEPT
               !.events = Append(@, Event(IF job_info.status # "processing"
                                          THEN "end" ELSE "update", job_info))]
    /\ UNCHANGED <<rule_files, spider, scraperVars, COMPILED_REGEX_PATTERNS,
                   scanVars, sysVars>>

\* one turn of the loop of event_generator() with the client connected: the
\* end event and break when the job is no longer processing, else an update
\* event and the sleep
event_generator ==
    /\ stream.pc = "open"
    /\ LET job_info == jobs[stream.job_id]
       IN  IF job_info.status # "processing"
           THEN stream' = [stream EXCEPT
                    !.pc = "closed",
                    !.events = Append(@, Event("end", job_info))]
           ELSE /\ Len(stream.events) < MaxEvents
                /\ stream' = [stream EXCEPT
                       !.events = Append(@, Event("update", job_info))]
    /\ UNCHANGED <<rule_files, spider, scraperVars, COMPILED_REGEX_PATTERNS,
                   scanVars, sysVars>>

\* request.is_disconnected() is true: break
event_generator_disconnected ==
    /\ stream.pc = "open"
    /\ stream' = [stream EXCEPT !.pc = "disconnected"]
    /\ UNCHANGED <<rule_files, spider, scraperVars, COMPILED_REGEX_PATTERNS,
                   scanVars, sysVars>>

NextStream ==
    \/ lifespan_ok
    \/ \E sub \in StreamSubmissions :
           uuid4(jobs) <= MaxJobs /\ start_log_analysis(sub[1], sub[2])
    \/ \E j \in DOMAIN task : BgStart(j)
    \/ \E j \in DOMAIN task : BgLookup(j)
    \/ \E j \in DOMAIN task : BgInvoke(j)
    \/ \E j \in DOMAIN task : BgLookupRaise(j)
    \/ \E j \in DOMAIN task : BgAddCommit(j)
    \/ \E j \in DOMAIN task : BgSave(j)
    \/ \E j \in DOMAIN task : BgLoadRead(j)
    \/ \E j \in DOMAIN task : BgLoadAssign(j)
    \/ \E j \in DOMAIN task : BgStore(j)
    \/ \E j \in DOMAIN task : BgFinish(j)
    \/ \E j \in DOMAIN task : BgExcept(j)
    \/ \E job_id \in Jobs : stream_results(job_id)
    \/ event_generator
    \/ event_generator_disconnected

SpecStream == Init /\ [][NextStream]_vars

---------------------------------------------------------------------------
(* Claim about the status stream (checked under SpecStream).               *)

TerminalRecord(job_info) ==
    \/ job_info.status = "complete" /\ "result" \in DOMAIN job_info
    \/ /\ job_info.status = "failed"
       /\ "result" \in DOMAIN job_info
       /\ "error" \in DOMAIN job_info.result

\* the events of the stream, in any state
StreamEvents ==
    /\ \A i \in 1..Len(stream.events) :
           LET e == stream.events[i]
           IN  /\ e.event \in {"update", "end"}
               /\ e.event = "update" => e.data.status = "processing"
               /\ e.event = "end" =>
                      /\ i = Len(stream.events)
                      /\ stream.pc = "closed"
                      /\ TerminalRecord(e.data)
                      /\ e.data = jobs[stream.job_id]
    /\ stream.pc = "closed" =>
           /\ stream.events # <<>>
           /\ stream.events[Len(stream.events)].event = "end"
    /\ stream.pc = "404" => stream.events = <<>>

\* the steps of the stream
StreamSteps ==
    /\ (stream.pc = "none" /\ stream'.pc # "none") =>
           (stream'.pc = "404" <=> stream'.job_id \notin DOMAIN jobs)
    /\ stream.pc \in {"closed", "404"} => stream' = stream

\* C21: the stream of a known job holds update events, each sent while the
\* job was processing, and then at most one end event, which is the last
\* event, closes the stream and carries the terminal record of the job
\* (complete with result or failed with error); a closed stream ends with
\* its end event and sends nothing more; a request for an id that is not
\* in jobs is answered 404 (and only such a request) and has no event.
C21_StreamUpdatesThenEnd == []StreamEvents /\ [][StreamSteps]_vars

\* a stream that sent an update and then the end event of a failed job
C21_Witness ==
    /\ stream.pc = "closed"
    /\ Len(stream.events) >= 2
    /\ stream.events[1].event = "update"
    /\ stream.events[Len(stream.events)].data.status = "failed"

---------------------------------------------------------------------------
(* One crawl of InteractiveSpider (scraper.py:55-158).  The site has the   *)
(* pages of Urls, every page links to every page, and a request for        *)
(* RedirectedUrl is answered with the page of RedirectTarget.  Requests    *)
(* are named by their URL: the scheduler drops a request for a URL it has  *)
(* seen.  Each request has one parse callback, and the callbacks run on    *)
(* one event loop: they interleave at the awaits.                          *)

Urls == 1..MaxUrls
start_url == 1
RedirectedUrl == MaxUrls
RedirectTarget == MaxUrls - 1

\* response.url of the response to a request
response_url(request) == IF request = RedirectedUrl THEN RedirectTarget ELSE request

\* the links of a page that are in the domain
links(url) == Urls

\* start(): the request for the start URL
spider_start ==
    /\ spider.requests = {}
    /\ spider' = [spider EXCEPT
           !.requests = {start_url},
           !.parse = Put(@, start_url, [pc |-> "response", url |-> response_url(start_url)])]
    /\ UNCHANGED <<stream, rule_files, scraperVars, COMPILED_REGEX_PATTERNS,
                   scanVars, sysVars>>

\* parse, lines 95-102: the response is there; return when the limit is
\* reached or the URL is recorded, else await the load state of the page
parse_check(r) ==
    /\ spider.parse[r].pc = "response"
    /\ LET url == spider.parse[r].url
       IN  IF \/ Cardinality(spider.crawled_pages) >= max_pages
              \/ url \in spider.crawled_pages
           THEN spider' = [spider EXCEPT !.parse[r].pc = "done"]
           ELSE spider' = [spider EXCEPT !.parse[r].pc = "wait_for_load_state"]
    /\ UNCHANGED <<stream, rule_files, scraperVars, COMPILED_REGEX_PATTERNS,
                   scanVars, sysVars>>

\* parse, lines 103-151: the page has loaded; the URL is recorded, the item
\* of the page is yielded, and while the limit is not reached a request is
\* yielded for every link that is not recorded (the scheduler drops those
\* it has seen)
parse_record(r) ==
    /\ spider.parse[r].pc = "wait_for_load_state"
    /\ LET url     == spider.parse[r].url
           crawled == spider.crawled_pages \cup {url}
           new     == IF Cardinality(crawled) >= max_pages THEN {}
                      ELSE {l \in links(url) : l \notin crawled /\ l \notin spider.requests}
       IN  spider' = [crawled_pages |-> crawled,
                      items |-> Append(spider.items, url),
                      requests |-> spider.requests \cup new,
                      parse |-> [q \in DOMAIN spider.parse \cup new |->
                                    IF q = r THEN [pc |-> "done", url |-> url]
                                    ELSE IF q \in new
                                         THEN [pc |-> "response", url |-> response_url(q)]
                                         ELSE spider.parse[q]]]
    /\ UNCHANGED <<stream, rule_files, scraperVars, COMPILED_REGEX_PATTERNS,
                   scanVars, sysVars>>

\* parse, lines 102 and 152-155: wait_for_load_state raises (timeout); an
\* error item is yielded, and the URL is not recorded
parse_except(r) ==
    /\ spider.parse[r].pc = "wait_for_load_state"
    /\ spider' = [spider EXCEPT !.parse[r].pc = "done"]
    /\ UNCHANGED <<stream, rule_files, scraperVars, COMPILED_REGEX_PATTERNS,
                   scanVars, sysVars>>

NextSpider ==
    \/ spider_start
    \/ \E r \in DOMAIN spider.parse : parse_check(r)
    \/ \E r \in DOMAIN spider.parse : parse_record(r)
    \/ \E r \in DOMAIN spider.parse : parse_except(r)

SpecSpider == Init /\ [][NextSpider]_vars

\* C29 (as claimed): in one crawl no more than max_pages pages are recorded
\* as crawled, no more than max_pages page items are yielded, and no two
\* page items have the same URL, with any number of parse callbacks in
\* flight.
C29_WithinMaxPages ==
    /\ Cardinality(spider.crawled_pages) <= max_pages
    /\ Len(spider.items) <= max_pages
    /\ \A k, l \in 1..Len(spider.items) : spider.items[k] = spider.items[l] => k = l

---------------------------------------------------------------------------
(* The rule loader on rule files of up to MaxFileLines lines.              *)

\* Lines of a rule file: two rules (with and without spaces), a blank line,
\* a line without an id, a rule whose pattern does not compile, a line
\* without a name, a rule with spaces around its fields and a colon in its
\* pattern, a rule whose name is a single space.
SampleLines ==
    { RuleLine(<<49>>, NameXSS, <<60>>),
      <<91, 50, 93>> \o NameSQLi \o <<58, 39>>,
      <<>>,
      NameXSS \o <<58, 32, 60>>,
      RuleLine(<<51>>, NameLFI, <<40>>),
      <<91, 52, 93, 58, 32, 60>>,
      <<91, 53, 93, 32, 32>> \o NameLFI \o <<32, 58, 32, 47, 58, 32>>,
      <<91, 54, 93, 32, 58, 60>> }

RECURSIVE FilesOfLen(_)
FilesOfLen(n) ==
    IF n = 0 THEN {<<>>}
    ELSE {Append(f, l) : f \in FilesOfLen(n - 1), l \in SampleLines}

\* the rule files the loader is run on: any nginx file, and an apache file
\* that is absent, empty or the one shipped
LoadInputs ==
    {[nginx |-> f, apache |-> g] :
        f \in {Missing} \cup UNION {FilesOfLen(n) : n \in 0..MaxFileLines},
        g \in {Missing, <<>>, RuleFiles["apache"]}}

InitLoad ==
    /\ COMPILED_REGEX_PATTERNS = [nginx |-> <<>>, apache |-> <<>>]
    /\ log_content = <<>>
    /\ log_type = "nginx"
    /\ detailed_findings = <<>>
    /\ summary_string = <<>>
    /\ scan_pc = "off"
    /\ SysInit
    /\ ScraperInit
    /\ OtherInit
    /\ rule_files \in LoadInputs

\* load_and_compile_regex() is run again in the same process, on the files
\* as they are (while the lists are no longer than a file)
reload_rules ==
    /\ rag_chain # "unset"
    /\ \A t \in DOMAIN COMPILED_REGEX_PATTERNS :
           Len(COMPILED_REGEX_PATTERNS[t]) <= MaxFileLines
    /\ COMPILED_REGEX_PATTERNS' = load_and_compile_regex(COMPILED_REGEX_PATTERNS)
    /\ UNCHANGED <<scanVars, sysVars, scraperVars, otherVars>>

NextLoad ==
    \/ lifespan_ok
    \/ lifespan_error
    \/ reload_rules

SpecLoad == InitLoad /\ [][NextLoad]_vars

---------------------------------------------------------------------------
(* Claims about the rule loader (checked under SpecLoad).                  *)

\* the line is "[", one or more digits, "]", one or more characters other
\* than the colon, a colon, and anything: n digits, the colon at c
Shape(line, n, c) ==
    /\ n >= 1 /\ n + 3 < c /\ c <= Len(line)
    /\ line[1] = 91
    /\ \A i \in 2..(n + 1) : IsDigit(line[i])
    /\ line[n + 2] = 93
    /\ \A i \in (n + 3)..(c - 1) : line[i] # 58
    /\ line[c] = 58

Conforms(line) == \E n, c \in 1..Len(line) : Shape(line, n, c)

\* the rule a conforming line stands for: the fields without the spaces
\* around them
RuleOf(line) ==
    LET nc == CHOOSE nc \in (1..Len(line)) \X (1..Len(line)) : Shape(line, nc[1], nc[2])
    IN  [id |-> SubSeq(line, 2, nc[1] + 1),
         name |-> strip(SubSeq(line, nc[1] + 3, nc[2] - 1)),
         pattern |-> strip(SubSeq(line, nc[2] + 1, Len(line)))]

Loadable(line) == Conforms(line) /\ re_compile_ok(RuleOf(line).pattern)

\* the rules of the loadable lines of a file, in file order
RulesOfFile(file) ==
    LET good == SelectSeq(file, Loadable)
    IN  [k \in 1..Len(good) |-> RuleOf(good[k])]

C23_LoaderIdempotent ==
    [][(rag_chain # "unset" /\ rule_files' = rule_files) =>
           COMPILED_REGEX_PATTERNS' = COMPILED_REGEX_PATTERNS]_vars

\* C25 (as claimed): when a rule file cannot be read, the initialization
\* reports a startup error and no working pipeline is started.
C25_MissingRuleFileFatal ==
    (rag_chain # "unset" /\ \E t \in DOMAIN rule_files : rule_files[t] = Missing) =>
        rag_chain = "None" /\ startup_error \in StartupErrors

---------------------------------------------------------------------------
(* The scanner alone, on every text up to MaxLen.                          *)

InitScan ==
    /\ COMPILED_REGEX_PATTERNS \in Registries
    /\ log_content \in Texts
    /\ log_type \in LogTypes
    /\ detailed_findings = <<>>
    /\ summary_string = <<>>
    /\ scan_pc = "ready"
    /\ SysInit
    /\ ScraperInit
    /\ OtherInit
    /\ rule_files = RuleFiles

Scan ==
    /\ scan_pc = "ready"
    /\ LET r == scan_log_and_summarize(COMPILED_REGEX_PATTERNS, log_content, log_type)
       IN  /\ detailed_findings' = r.detailed_findings
           /\ summary_string' = r.summary_string
           /\ scan_pc' = IF r.raised THEN "raised" ELSE "done"
    /\ UNCHANGED <<scraperVars, otherVars, COMPILED_REGEX_PATTERNS, log_content, log_type, sysVars>>

NextScan == Scan

SpecScan == InitScan /\ [][NextScan]_vars

---------------------------------------------------------------------------
(* Claims about the scanner (checked under SpecScan).                      *)

\* the rules of the selected tag, read off the registry directly
RulesOfTag ==
    IF log_type \in DOMAIN COMPILED_REGEX_PATTERNS
    THEN COMPILED_REGEX_PATTERNS[log_type] ELSE <<>>

MatchingRules(line) ==
    {k \in 1..Len(RulesOfTag) : search(RulesOfTag[k].pattern, line)}

FindingsOfLine(i) ==
    {p \in 1..Len(detailed_findings) : detailed_findings[p].Line = i}

\* C1: the scan produces at most one Finding per input line: a line that
\* matches one or more rules of the selected tag has exactly one Finding,
\* named after the matching rule that is earliest in registry order, and a
\* line that matches no rule has none.
C1_FirstMatchWins ==
    scan_pc = "done" =>
        LET lines == splitlines(log_content)
        IN  /\ Len(detailed_findings) <= Len(lines)
            /\ \A p \in 1..Len(detailed_findings) :
                   detailed_findings[p].Line \in 1..Len(lines)
            /\ \A i \in 1..Len(lines) :
                   LET hits == MatchingRules(lines[i])
                   IN  IF hits = {} THEN FindingsOfLine(i) = {}
                       ELSE /\ Cardinality(FindingsOfLine(i)) = 1
                            /\ \A p \in FindingsOfLine(i) :
                                   /\ \E k \in hits :
                                          /\ \A h \in hits : k <= h
                                          /\ detailed_findings[p].Threat = RulesOfTag[k].name
                                   /\ detailed_findings[p].LogEntry = lines[i]

\* a scanned line matches two rules with different names
C1_Witness ==
    /\ scan_pc = "done"
    /\ \E i \in 1..Len(splitlines(log_content)) :
           /\ FindingsOfLine(i) # {}
           /\ \E k, h \in MatchingRules(splitlines(log_content)[i]) :
                  RulesOfTag[k].name # RulesOfTag[h].name

ThreatNames == {detailed_findings[p].Threat : p \in 1..Len(detailed_findings)}

\* the lines of the input in the order given by the permutation f
Permuted(lines, f) == [p \in 1..Len(lines) |-> lines[f[p]]]

\* C2: the summary depends only on the multiset of threat names of the
\* Findings: one line per distinct name, in ascending alphabetical order,
\* each with the number of Findings of that name; the same log lines in any
\* other order give the identical summary.
C2_SummaryCanonical ==
    scan_pc = "done" =>
        /\ Len(summary_string) = Cardinality(ThreatNames)
        /\ {summary_string[p][1] : p \in 1..Len(summary_string)} = ThreatNames
        /\ \A p, q \in 1..Len(summary_string) :
               p < q => StrLess(summary_string[p][1], summary_string[q][1])
        /\ \A p \in 1..Len(summary_string) :
               summary_string[p][2] =
                   Cardinality({f \in 1..Len(detailed_findings) :
                                   detailed_findings[f].Threat = summary_string[p][1]})
        /\ LET lines == splitlines(log_content)
           IN  \A f \in Permutations(1..Len(lines)) :
                   SummaryOf(ScanLines(RulesOfTag, Permuted(lines, f), 1)) = summary_string

\* two threat names, found in an order that is not the alphabetical one,
\* one of them more than once
C2_Witness ==
    /\ scan_pc = "done"
    /\ Len(detailed_findings) >= 3
    /\ Len(summary_string) = 2
    /\ detailed_findings[1].Threat # summary_string[1][1]

\* C3: with no matching line (empty input included), or with a format tag
\* that is not a key of the registry, the scan ends without an error and
\* returns no Findings and the empty summary.
C3_NoMatchEmpty ==
    LET lines == splitlines(log_content)
        nothing == \/ log_type \notin DOMAIN COMPILED_REGEX_PATTERNS
                   \/ \A i \in 1..Len(lines) :
                          \A k \in 1..Len(COMPILED_REGEX_PATTERNS[log_type]) :
                              ~search(COMPILED_REGEX_PATTERNS[log_type][k].pattern, lines[i])
    IN  nothing =>
            /\ scan_pc # "raised"
            /\ scan_pc = "done" => detailed_findings = <<>> /\ summary_string = <<>>

\* an unknown tag on a log that the nginx rules would flag
C3_Witness ==
    /\ scan_pc = "done"
    /\ log_type \notin DOMAIN COMPILED_REGEX_PATTERNS
    /\ \E i \in 1..Len(splitlines(log_content)) :
           \E k \in 1..Len(COMPILED_REGEX_PATTERNS["nginx"]) :
               search(COMPILED_REGEX_PATTERNS["nginx"][k].pattern, splitlines(log_content)[i])

=============================================================================
